---- MODULE Spec2Model ----
(***************************************************************************)
(* A model of src/src/app.py: the classify command of the embeddings       *)
(* classifier.  One run of classify(input_path, output_path, config_path)  *)
(* is a behaviour: the config document, the kind of the input path and the *)
(* state of the output location are fixed in Init, the content of each     *)
(* input file is drawn when process_single_file reads it.                  *)
(*                                                                         *)
(* Numbers are integers: the float32 values of the program are modelled by *)
(* small integers, which float32 represents exactly.  A JSON number keeps  *)
(* the Python type json.load gives it ("int" or "float").                  *)
(***************************************************************************)
EXTENDS Integers, Sequences, FiniteSets, TLC

\* ---- bounds of the model ----
MaxFiles == 2
MaxRows == 2
MaxEntries == 3
MaxRecognizers == 2

\* ---- program constants ----
NumMetadata == 3
Float32Min == -1000000

\* ------------------------------------------------------------------------
\* JSON values of the config's "threshold" key
\* ------------------------------------------------------------------------
ThrAbsent == [kind |-> "absent", val |-> 0, list |-> <<>>]
ThrNull == [kind |-> "null", val |-> 0, list |-> <<>>]
ThrInt(n) == [kind |-> "int", val |-> n, list |-> <<>>]
ThrFloat(n) == [kind |-> "float", val |-> n, list |-> <<>>]
ThrList(l) == [kind |-> "list", val |-> 0, list |-> l]

Thresholds == {ThrAbsent, ThrNull, ThrInt(1), ThrFloat(1), ThrList(<<1>>), ThrList(<<0, 5>>)}

\* ------------------------------------------------------------------------
\* Config documents
\* ------------------------------------------------------------------------
ClassLists == {<<"a">>, <<"a", "b">>}
BetaFlats == {<<1, 2>>, <<1, 2, -1, 1>>, <<1, 2, 3>>}
Biases == {<<0>>, <<1, -2>>}
SaveEmptyValues == {"absent", "true", "false"}
ClassifierFields == {"classes", "beta", "beta_bias"}

\* The classifier object: the fields it has, the float32 values its beta and
\* beta_bias strings hold, and whether do_decode can read the strings at all
\* (valid base64 of a whole number of 4-byte values).
Classifiers ==
    [fields : {ClassifierFields}, classes : ClassLists, beta : BetaFlats, beta_bias : Biases,
     decodes : {TRUE}]

\* Classifiers at the edges of deserialize_classifier_params: no class at
\* all, no weight at all, and strings that do not decode.
EdgeClassifiers ==
    {[fields |-> ClassifierFields, classes |-> <<>>, beta |-> <<1, 2>>,
      beta_bias |-> <<0>>, decodes |-> TRUE],
     [fields |-> ClassifierFields, classes |-> <<>>, beta |-> <<>>,
      beta_bias |-> <<>>, decodes |-> TRUE],
     [fields |-> ClassifierFields, classes |-> <<"a", "b">>, beta |-> <<>>,
      beta_bias |-> <<1, -2>>, decodes |-> TRUE],
     [fields |-> ClassifierFields, classes |-> <<"a">>, beta |-> <<1, 2>>,
      beta_bias |-> <<0>>, decodes |-> FALSE]}

\* A classifier object that lacks some required field.
PartialClassifier(f) ==
    [fields |-> f,
     classes |-> IF "classes" \in f THEN <<"a">> ELSE <<>>,
     beta |-> IF "beta" \in f THEN <<1, 2>> ELSE <<>>,
     beta_bias |-> IF "beta_bias" \in f THEN <<0>> ELSE <<>>,
     decodes |-> TRUE]
PartialClassifiers ==
    {PartialClassifier(f) : f \in (SUBSET ClassifierFields) \ {ClassifierFields}}

\* A document that cannot be loaded: the file is missing or is not JSON.
BrokenDoc(shape) ==
    [shape |-> shape,
     classifier |-> [fields |-> {}, classes |-> <<>>, beta |-> <<>>, beta_bias |-> <<>>,
                     decodes |-> TRUE],
     threshold |-> ThrAbsent, save_empty |-> "absent"]

ConfigDocs ==
    [shape : {"wrapped"}, classifier : Classifiers, threshold : Thresholds,
     save_empty : SaveEmptyValues]
    \cup [shape : {"bare"}, classifier : Classifiers, threshold : {ThrAbsent},
          save_empty : {"absent"}]
    \cup [shape : {"wrapped", "bare"}, classifier : PartialClassifiers,
          threshold : {ThrAbsent}, save_empty : {"absent"}]
    \cup [shape : {"wrapped"}, classifier : EdgeClassifiers,
          threshold : {ThrAbsent}, save_empty : {"absent"}]
    \cup {BrokenDoc("missing"), BrokenDoc("malformed")}

\* ------------------------------------------------------------------------
\* Paths.  A file name is the sequence of its pieces: a base and the
\* extensions after it, each with its dot ("b.wav.parquet" is
\* <<"b", ".wav", ".parquet">>; the hidden file ".parquet" is the base alone).
\* A path is the sequence of its names.
\* ------------------------------------------------------------------------
\* pathlib's name.suffix: the last extension, '' when there is none.
Suffix(name) == IF Len(name) > 1 THEN name[Len(name)] ELSE ""

\* pathlib's name.with_suffix(s): the last extension replaced by s, or s
\* appended to a name without extension.
with_suffix(name, s) ==
    IF Len(name) > 1 THEN SubSeq(name, 1, Len(name) - 1) \o <<s>> ELSE name \o <<s>>

\* The names of input_path and output_path in single-file mode.
InputFileNames == {<<"in", ".parquet">>, <<"in", ".csv">>, <<".parquet">>}
OutputFileNames ==
    {<<"result">>, <<"result", ".csv">>, <<"result", ".parquet">>, <<"result", ".CSV">>}
InputDirName == <<"in">>
OutputDirName == <<"out">>

\* path.relative_to(base), for a path under base
RelativeTo(path, base) == SubSeq(path, Len(base) + 1, Len(path))

\* path.with_suffix(s) acts on the path's last name.
PathWithSuffix(path, s) ==
    SubSeq(path, 1, Len(path) - 1) \o <<with_suffix(path[Len(path)], s)>>

\* Mutant of DirectoryOutputPath: every result is placed directly in the
\* output directory.
DirectoryOutputPathFlat(file_path, input_path, output_path) ==
    output_path \o <<with_suffix(file_path[Len(file_path)], ".csv")>>

\* Lines 272-273: output_path / file_path.relative_to(input_path).with_suffix('.csv')
DirectoryOutputPath(file_path, input_path, output_path) ==
    output_path \o PathWithSuffix(RelativeTo(file_path, input_path), ".csv")

\* What may lie under the input directory: files and directories, by their
\* path relative to it.
File(path) == [path |-> path, kind |-> "file"]
Dir(path) == [path |-> path, kind |-> "dir"]
EntryPool ==
    {File(<< <<"c", ".parquet">> >>),
     Dir(<< <<"a">> >>),
     File(<< <<"a">>, <<"b", ".parquet">> >>),
     Dir(<< <<"d", ".parquet">> >>),
     File(<< <<"d", ".parquet">>, <<"z", ".parquet">> >>),
     File(<< <<"y", ".csv">> >>),
     File(<< <<".parquet">> >>),
     File(<< <<".parquet", ".parquet">> >>),
     File(<< <<"w", ".wav">>, <<"n", ".parquet">> >>),
     Dir(<< <<"w", ".wav">> >>),
     File(<< <<"w", ".wav", ".parquet">> >>),
     File(<< <<"x", ".PARQUET">> >>)}

\* A directory tree: every entry below the top lies in a directory of the tree.
ParentClosed(t) ==
    \A e \in t : Len(e.path) > 1 => Dir(SubSeq(e.path, 1, Len(e.path) - 1)) \in t
Trees == {t \in SUBSET EntryPool : Cardinality(t) <= MaxEntries /\ ParentClosed(t)}

\* The glob pattern '*.parquet' applied to a name: the name's text ends in
\* ".parquet" (the hidden file ".parquet" included).
MatchesPattern(name) == name[Len(name)] = ".parquet"

\* get_parquet_files(directory): Path(directory).rglob('*.parquet') yields
\* each entry under the directory whose name matches, whatever its kind.
get_parquet_files(t, directory) ==
    {directory \o e.path : e \in {x \in t : MatchesPattern(x.path[Len(x.path)])}}

\* The orders in which rglob may yield a set of paths.
Orders(S) ==
    {q \in [1..Cardinality(S) -> S] : \A i, j \in 1..Cardinality(S) : q[i] = q[j] => i = j}

\* ------------------------------------------------------------------------
\* Input tables
\* ------------------------------------------------------------------------
FeatureVectors == <<(<<3, 4>>), (<<-2, 0>>)>>

\* Row i of a table with F feature columns whose first row is vector `first`.
MakeRow(first, i, F) ==
    [source |-> IF i % 2 = 1 THEN "x.wav" ELSE "y.wav",
     channel |-> i % 2,
     offset |-> 5 * (i - 1),
     features |-> SubSeq(FeatureVectors[((first + i) % 2) + 1], 1, F)]

\* `named` tells whether the first three columns bear the names source,
\* channel and offset; the row fields of these names hold the values of the
\* first three columns either way.
MakeTable(first, n, F) ==
    [readable |-> TRUE, named |-> TRUE, num_columns |-> NumMetadata + F,
     rows |-> [i \in 1..n |-> MakeRow(first, i, F)]]

\* The same table with its first three columns under other names.
Renamed(t) == [t EXCEPT !.named = FALSE]

\* A file pq.read_table raises on.
UnreadableTable == [readable |-> FALSE, named |-> FALSE, num_columns |-> 0, rows |-> <<>>]

Tables ==
    {MakeTable(first, n, F) : first \in {0, 1}, n \in 0..MaxRows, F \in {1, 2}}
    \cup {Renamed(MakeTable(0, n, F)) : n \in 0..MaxRows, F \in {1, 2}}
    \cup {UnreadableTable}

\* ------------------------------------------------------------------------
\* load_config
\* ------------------------------------------------------------------------
NoClassifier == [fields |-> {}, classes |-> <<>>, beta |-> <<>>, beta_bias |-> <<>>,
                 decodes |-> TRUE]
ConfigError == [ok |-> FALSE, classifier |-> NoClassifier, threshold |-> ThrAbsent,
                save_empty |-> "absent"]

\* Mutant of DefaultThreshold: an absent threshold is left as None.
DefaultThresholdNone == ThrNull

\* The default threshold load_config stores: the Python float 0.0.
DefaultThreshold == ThrFloat(0)

\* Lines 73-74: what load_config puts around a bare classifier document.
BareThreshold == ThrFloat(0)

\* Mutant of BareSaveEmpty: a bare document does not save empty results.
BareSaveEmptyFalse == "false"

BareSaveEmpty == "true"

\* Mutant of MissingRequired: the required fields are not looked for.
MissingRequiredNever(classifier) == FALSE

\* Lines 78-81: some required field is not in the classifier.
MissingRequired(classifier) == ClassifierFields \ classifier.fields # {}

\* load_config(config_path): the normalised config, or ok = FALSE where the
\* code prints an error and calls sys.exit(1).
load_config(doc) ==
    IF doc.shape \in {"missing", "malformed"} THEN ConfigError
    ELSE IF doc.shape = "bare" /\ "classes" \notin doc.classifier.fields THEN ConfigError
    ELSE IF MissingRequired(doc.classifier) THEN ConfigError
    ELSE IF doc.shape = "bare"
         THEN [ok |-> TRUE, classifier |-> doc.classifier,
               threshold |-> BareThreshold, save_empty |-> BareSaveEmpty]
         ELSE [ok |-> TRUE, classifier |-> doc.classifier,
               threshold |-> IF doc.threshold.kind = "absent" THEN DefaultThreshold
                             ELSE doc.threshold,
               save_empty |-> doc.save_empty]

\* ------------------------------------------------------------------------
\* deserialize_classifier_params
\* ------------------------------------------------------------------------
\* numpy's reshape(num_rows, num_cols) of a flat row-major buffer.
Reshape(flat, num_rows, num_cols) ==
    [f \in 1..num_rows |-> [c \in 1..num_cols |-> flat[(f - 1) * num_cols + c]]]

ParamsError == [ok |-> FALSE, beta |-> <<>>, rows |-> 0, cols |-> 0, beta_bias |-> <<>>]

\* Mutant of DecodeFails: a string that does not decode gives no values and
\* no exception.
DecodeNeverFails(classifier) == FALSE

\* Lines 103-105: b64decode or np.frombuffer raises on the beta or beta_bias
\* string.
DecodeFails(classifier) == ~classifier.decodes

\* Mutant of ReshapeFails: reshape takes the values it needs and drops the rest.
ReshapeTruncates(n, num_rows, num_cols) == FALSE

\* Line 111: numpy's reshape raises unless the shape holds every value.
ReshapeFails(n, num_rows, num_cols) == num_rows * num_cols # n

\* (beta, beta_bias), or ok = FALSE where the code prints and exits 1: a
\* string that does not decode, the division by len(classes) = 0 and a
\* reshape that does not use every value.
deserialize_classifier_params(classifier) ==
    LET num_cols == Len(classifier.classes)
        n == Len(classifier.beta)
    IN  IF DecodeFails(classifier) THEN ParamsError
        ELSE IF num_cols = 0 THEN ParamsError
        ELSE LET num_rows == n \div num_cols
             IN  IF ReshapeFails(n, num_rows, num_cols) THEN ParamsError
                 ELSE [ok |-> TRUE,
                       beta |-> Reshape(classifier.beta, num_rows, num_cols),
                       rows |-> num_rows, cols |-> num_cols,
                       beta_bias |-> classifier.beta_bias]

\* ------------------------------------------------------------------------
\* process_single_file
\* ------------------------------------------------------------------------
RECURSIVE Dot(_, _, _, _)
\* sum over f in k..Len(x) of x[f] * beta[f][c]
Dot(x, beta, c, k) ==
    IF k > Len(x) THEN 0 ELSE x[k] * beta[k][c] + Dot(x, beta, c, k + 1)

\* Mutant of Scores: the bias is not added.
ScoresNoBias(rows, beta, beta_bias, C) ==
    [r \in 1..Len(rows) |-> [c \in 1..C |-> Dot(rows[r].features, beta, c, 1)]]

\* scores = features @ beta + beta_bias
Scores(rows, beta, beta_bias, C) ==
    [r \in 1..Len(rows) |-> [c \in 1..C |-> Dot(rows[r].features, beta, c, 1) + beta_bias[c]]]

\* The threshold_array of the code, or ok = FALSE where it raises.
ResolveThreshold(threshold, C) ==
    IF threshold.kind = "float"
    THEN [ok |-> TRUE, vec |-> [c \in 1..C |-> threshold.val], err |-> "none"]
    ELSE IF threshold.kind = "list"
    THEN IF Len(threshold.list) # C
         THEN [ok |-> FALSE, vec |-> <<>>, err |-> "threshold_length"]
         ELSE [ok |-> TRUE, vec |-> threshold.list, err |-> "none"]
    ELSE IF threshold.kind = "null"
    THEN [ok |-> TRUE, vec |-> [c \in 1..C |-> Float32Min], err |-> "none"]
    ELSE [ok |-> FALSE, vec |-> <<>>, err |-> "threshold_type"]

\* Mutant of Passes: a score equal to its threshold does not pass.
PassesStrict(score, thr) == score > thr

\* above_threshold_mask[r][c]
Passes(score, thr) == score >= thr

RECURSIVE WhereColumnMajor(_, _, _, _, _)
\* Mutant of Where: the pairs class by class.
WhereColumnMajor(scores, vec, R, C, k) ==
    IF k > R * C THEN <<>>
    ELSE LET r == ((k - 1) % R) + 1
             c == ((k - 1) \div R) + 1
         IN  (IF Passes(scores[r][c], vec[c]) THEN <<(<<r, c>>)>> ELSE <<>>)
             \o WhereColumnMajor(scores, vec, R, C, k + 1)

RECURSIVE Where(_, _, _, _, _)
\* np.where(mask): the (row, class) pairs whose mask is true, in row-major
\* order, starting at linear index k.
Where(scores, vec, R, C, k) ==
    IF k > R * C THEN <<>>
    ELSE LET r == ((k - 1) \div C) + 1
             c == ((k - 1) % C) + 1
         IN  (IF Passes(scores[r][c], vec[c]) THEN <<(<<r, c>>)>> ELSE <<>>)
             \o Where(scores, vec, R, C, k + 1)

\* One row of the long-format result table.
ResultRow(rows, scores, classes, pair) ==
    [source |-> rows[pair[1]].source,
     channel |-> rows[pair[1]].channel,
     offset |-> rows[pair[1]].offset,
     label |-> classes[pair[2]],
     score |-> scores[pair[1]][pair[2]]]

ResultTable(rows, scores, classes, pairs) ==
    [k \in 1..Len(pairs) |-> ResultRow(rows, scores, classes, pairs[k])]

\* Mutant of SkipOutput: save_empty is ignored, an empty result is written.
SkipOutputNever(pairs, save_empty) == FALSE

\* Line 185: nothing passed and empty results are not to be saved.
SkipOutput(pairs, save_empty) == Len(pairs) = 0 /\ ~save_empty

\* The state of one output path.
\* `parent` is the directory the path lies in: it exists, is missing but can
\* be created, or cannot be created ("blocked": mkdir raises).
FileAbsent == [state |-> "absent", rows |-> <<>>, format |-> "none", parent |-> "exists"]
FileOld == [state |-> "old", rows |-> <<>>, format |-> "none", parent |-> "exists"]
FileBlocked == [state |-> "blocked", rows |-> <<>>, format |-> "none", parent |-> "blocked"]
FileNoParent == [state |-> "absent", rows |-> <<>>, format |-> "none", parent |-> "missing"]
FileResult(rows, format) ==
    [state |-> "result", rows |-> rows, format |-> format, parent |-> "exists"]

\* Mutant of OutputFormat: the extension is compared without regard to case.
OutputFormatAnyCase(output_name) ==
    IF Suffix(output_name) \in {".csv", ".CSV"} THEN "csv" ELSE "parquet"

\* Lines 210-217: CSV with a header for the suffix '.csv', parquet otherwise.
OutputFormat(output_name) == IF Suffix(output_name) = ".csv" THEN "csv" ELSE "parquet"

\* Mutant of OutputBeforeWrite: the parent directories are made at the start
\* of the call.
OutputDirsMadeEarly(out) ==
    IF out.parent = "missing" THEN [out EXCEPT !.parent = "exists"] ELSE out

\* Lines 148-207: nothing before line 209 touches output_path.
OutputBeforeWrite(out) == out

\* Mutant of Failure: the exception is swallowed and the call reports success.
FailureSwallowed(out, why) ==
    [success |-> TRUE, out |-> OutputBeforeWrite(out), outcome |-> why]

\* Lines 222-224: the exception is caught and the call returns False.
Failure(out, why) == [success |-> FALSE, out |-> OutputBeforeWrite(out), outcome |-> why]

\* Lines 194-195: table.column(col_name) for 'source', 'channel' and 'offset'
\* raises KeyError when the table has no column of that name.
MetadataMissing(table) == ~table.named

\* process_single_file(input_path, output_path, beta, beta_bias, classes,
\* threshold, save_empty): the return value, the output path afterwards and
\* the branch taken.  `table` is what pq.read_table finds at input_path,
\* `out` the state of output_path before the call, `output_name` its name,
\* `params` the result of deserialize_classifier_params.
process_single_file(table, out, output_name, params, classes, threshold, save_empty) ==
    IF ~table.readable THEN Failure(out, "read")
    ELSE
    LET num_feature_cols == table.num_columns - NumMetadata
        C == Len(classes)
    IN  IF num_feature_cols # params.rows THEN Failure(out, "feature_count")
        ELSE IF params.rows # num_feature_cols \/ params.cols # C
                \/ Len(params.beta_bias) # C
        THEN Failure(out, "shape")
        ELSE
        LET scores == Scores(table.rows, params.beta, params.beta_bias, C)
            resolved == ResolveThreshold(threshold, C)
        IN  IF ~resolved.ok THEN Failure(out, resolved.err)
            ELSE
            LET pairs == Where(scores, resolved.vec, Len(table.rows), C, 1)
            IN  IF SkipOutput(pairs, save_empty)
                THEN [success |-> TRUE, out |-> OutputBeforeWrite(out), outcome |-> "skipped"]
                ELSE IF MetadataMissing(table) THEN Failure(out, "metadata_column")
                ELSE IF out.parent = "blocked" THEN Failure(out, "write")
                ELSE [success |-> TRUE,
                      out |-> FileResult(ResultTable(table.rows, scores, classes, pairs),
                                         OutputFormat(output_name)),
                      outcome |-> "written"]

\* ------------------------------------------------------------------------
\* classify: the state of one run
\* ------------------------------------------------------------------------
VARIABLES
    doc,            \* the document at config_path
    inputKind,      \* input_path: "file", "dir" or "missing"
    inputName,      \* the name of input_path
    outputName,     \* the name of output_path
    tree,           \* the entries under the input directory
    parquet_files,  \* the list get_parquet_files returned
    calls,          \* the paths of each process_single_file call of the loop
    nFiles,         \* the number of files get_parquet_files enumerates
    initialOutputs, \* the state of each output path before the run
    outputs,        \* the state of each output path (one per input file)
    pc,             \* position in classify
    exitCode,       \* the exit status, once pc = "done"
    config,         \* the result of load_config
    params,         \* the result of deserialize_classifier_params
    idx,            \* files of the directory loop handled so far
    table,          \* the table the last process_single_file call read
    success_count,  \* success_count of the directory loop
    log,            \* one record per process_single_file call
    messages,       \* the error messages printed so far
    \* ---- main ----
    command,        \* args.command
    args,           \* args.input, args.output, args.config
    main_pc,        \* position in main
    invoked,        \* the calls main has made
    \* ---- run_model_on_ecosounds.process_file ----
    recognizers,    \* the number of recognizers of the run
    results,        \* the results CSV of each recognizer
    parquet,        \* the temporary parquet file at parquet_path
    eco_pc,         \* position in process_file
    rec,            \* recognizers the loop has handled
    pass,           \* which call of process_file this is
    events          \* what the calls of process_file have done

classifyVars ==
    <<doc, inputKind, inputName, outputName, tree, parquet_files, calls, nFiles,
      initialOutputs, outputs, pc, exitCode, config, params, idx, table,
      success_count, log, messages>>
mainVars == <<command, args, main_pc, invoked>>
ecoVars == <<recognizers, results, parquet, eco_pc, rec, pass, events>>
vars == <<classifyVars, mainVars, ecoVars>>

\* main is not part of the run.
MainIdle ==
    /\ command = "classify"
    /\ args = [input |-> "in", output |-> "out", config |-> "config.json"]
    /\ main_pc = "done"
    /\ invoked = <<>>

\* process_file is not part of the run.
EcoIdle ==
    /\ recognizers = 0
    /\ results = <<>>
    /\ parquet = "absent"
    /\ eco_pc = "done"
    /\ rec = 0
    /\ pass = 1
    /\ events = <<>>

\* ---- the messages of the failure paths ----
Message(text, names_file, names_condition) ==
    [text |-> text, names_file |-> names_file, names_condition |-> names_condition]
\* Lines 89-97: the three except clauses of load_config.
LoadConfigError(d) ==
    IF d.shape = "missing"
    THEN Message("Error: Config file '{config_path}' not found", TRUE, TRUE)
    ELSE IF d.shape = "malformed"
    THEN Message("Error: Invalid JSON in config file: {e}", FALSE, TRUE)
    ELSE Message("Error loading config: {e}", FALSE, TRUE)
\* Line 116
DeserializeError == Message("Error deserializing classifier parameters: {e}", FALSE, TRUE)
\* Line 223
ProcessingError == Message("Error processing {input_path}: {e}", TRUE, TRUE)
\* Line 247
NotParquetError == Message("Error: Input file must be a parquet file", FALSE, TRUE)
\* Line 257
ProcessingFailed == Message("Processing failed", FALSE, FALSE)
\* Line 264
NoFilesError == Message("No parquet files found in {input_path}", TRUE, TRUE)
\* Line 286
InputMissingError == Message("Error: Input path '{input_path}' does not exist", TRUE, TRUE)

OutputStates == {FileAbsent, FileOld, FileBlocked, FileNoParent}

Init ==
    /\ doc \in ConfigDocs
    /\ inputKind \in {"file", "dir", "missing"}
    /\ nFiles \in 0..MaxFiles
    /\ inputKind = "file" => nFiles = 1
    /\ inputKind = "missing" => nFiles = 0
    /\ inputName \in InputFileNames \cup {InputDirName}
    /\ outputName \in OutputFileNames \cup {OutputDirName}
    /\ inputKind = "file" <=> inputName \in InputFileNames
    /\ inputKind = "file" <=> outputName \in OutputFileNames
    /\ tree = {}
    /\ parquet_files = <<>>
    /\ calls = <<>>
    /\ \E o \in OutputStates : initialOutputs = [i \in 1..nFiles |-> o]
    /\ outputs = initialOutputs
    /\ pc = "load_config"
    /\ exitCode = 0
    /\ config = ConfigError
    /\ params = ParamsError
    /\ idx = 0
    /\ table = UnreadableTable
    /\ success_count = 0
    /\ log = <<>>
    /\ messages = <<>>
    /\ MainIdle
    /\ EcoIdle

\* sys.exit(code)
Exit(code) ==
    /\ pc' = "done"
    /\ exitCode' = code

\* The save_empty classify passes on: config.get('save_empty', True).
SaveEmpty(cfg) == cfg.save_empty # "false"

\* Mutant of SingleFileExitCode: a failed file does not end the run with 1.
SingleFileExitCodeZero(success) == 0

\* classify, lines 254-258: the exit status of single-file mode.
SingleFileExitCode(success) == IF success THEN 0 ELSE 1

\* Mutant of DirectoryExitCode: failed files make the run exit 1.
DirectoryExitCodeStrict(count, total) == IF count < total THEN 1 ELSE 0

\* classify, line 283: after the loop classify returns, whatever the count.
DirectoryExitCode(count, total) == 0

\* Mutant of ContinueLoop: the first failed file ends the run.
AbortOnFailure(success) ==
    IF success
    THEN pc' = "loop" /\ exitCode' = exitCode
    ELSE pc' = "done" /\ exitCode' = 1

\* classify, lines 280-281: a file's failure only leaves success_count as it
\* is; the loop goes on to the next file.
ContinueLoop(success) ==
    /\ pc' = "loop"
    /\ exitCode' = exitCode

\* What one process_single_file call leaves in the log.
LogEntry(t, output_name, res) ==
    [readable |-> t.readable, named |-> t.named, num_columns |-> t.num_columns,
     output_name |-> output_name,
     success |-> res.success, outcome |-> res.outcome]

\* The i-th file the directory loop handles.
DirectoryFileName(i) == <<ToString(i), ".parquet">>

\* Mutant of IsParquetName: any input file is accepted.
IsParquetNameAny(name) == TRUE

\* Line 246: the input file must be a parquet file.
IsParquetName(name) == Suffix(name) = ".parquet"

\* Lines 250-253: the output path single-file mode passes on, as given.
SingleOutputName(output_name) == output_name

\* Line 273: rel_path.with_suffix('.csv')
DirectoryOutputName(name) == with_suffix(name, ".csv")

\* classify, line 235: config = load_config(config_path)
LoadConfig ==
    /\ pc = "load_config"
    /\ config' = load_config(doc)
    /\ IF config'.ok
       THEN pc' = "deserialize" /\ UNCHANGED <<exitCode, messages>>
       ELSE Exit(1) /\ messages' = Append(messages, LoadConfigError(doc))
    /\ UNCHANGED <<mainVars, ecoVars>>
    /\ UNCHANGED <<doc, inputKind, inputName, outputName, tree, parquet_files, calls, nFiles, initialOutputs, outputs, params, idx, table, success_count, log>>

\* classify, lines 236-243: decode the parameters
Deserialize ==
    /\ pc = "deserialize"
    /\ params' = deserialize_classifier_params(config.classifier)
    /\ IF params'.ok
       THEN pc' = "dispatch" /\ UNCHANGED <<exitCode, messages>>
       ELSE Exit(1) /\ messages' = Append(messages, DeserializeError)
    /\ UNCHANGED <<mainVars, ecoVars>>
    /\ UNCHANGED <<doc, inputKind, inputName, outputName, tree, parquet_files, calls, nFiles, initialOutputs, outputs, config, idx, table, success_count, log>>

\* classify, lines 245-258: input_path is a file
ClassifyFile ==
    /\ pc = "dispatch"
    /\ inputKind = "file"
    /\ IF ~IsParquetName(inputName)
       THEN /\ Exit(1)
            /\ messages' = Append(messages, NotParquetError)
            /\ UNCHANGED <<table, outputs, log>>
       ELSE \E t \in Tables :
         LET name == SingleOutputName(outputName)
             res == process_single_file(t, outputs[1], name, params,
                                        config.classifier.classes,
                                        config.threshold, SaveEmpty(config))
         IN  /\ table' = t
             /\ outputs' = [outputs EXCEPT ![1] = res.out]
             /\ log' = Append(log, LogEntry(t, name, res))
             /\ messages' = IF res.success THEN messages
                            ELSE messages \o <<ProcessingError, ProcessingFailed>>
             /\ Exit(SingleFileExitCode(res.success))
    /\ UNCHANGED <<mainVars, ecoVars>>
    /\ UNCHANGED <<doc, inputKind, inputName, outputName, tree, parquet_files, calls, nFiles, initialOutputs, config, params, idx, success_count>>

\* classify, lines 260-269: input_path is a directory; enumerate it
ClassifyDirectory ==
    /\ pc = "dispatch"
    /\ inputKind = "dir"
    /\ IF nFiles = 0
       THEN Exit(1) /\ messages' = Append(messages, NoFilesError)
       ELSE pc' = "loop" /\ UNCHANGED <<exitCode, messages>>
    /\ success_count' = 0
    /\ UNCHANGED <<mainVars, ecoVars>>
    /\ UNCHANGED <<doc, inputKind, inputName, outputName, tree, parquet_files, calls, nFiles, initialOutputs, outputs, config, params, idx, table, log>>

\* classify, lines 270-281: one iteration of the loop over parquet_files
ProcessNextFile ==
    /\ pc = "loop"
    /\ idx < nFiles
    /\ \E t \in Tables :
         LET name == DirectoryOutputName(DirectoryFileName(idx + 1))
             res == process_single_file(t, outputs[idx + 1], name, params,
                                        config.classifier.classes,
                                        config.threshold, SaveEmpty(config))
         IN  /\ table' = t
             /\ outputs' = [outputs EXCEPT ![idx + 1] = res.out]
             /\ log' = Append(log, LogEntry(t, name, res))
             /\ success_count' = IF res.success THEN success_count + 1 ELSE success_count
             /\ messages' = IF res.success THEN messages
                            ELSE Append(messages, ProcessingError)
             /\ ContinueLoop(res.success)
    /\ idx' = idx + 1
    /\ UNCHANGED <<mainVars, ecoVars>>
    /\ UNCHANGED <<doc, inputKind, inputName, outputName, tree, parquet_files, calls, nFiles, initialOutputs, config, params>>

\* classify, line 283: the loop is over; classify returns
FinishDirectory ==
    /\ pc = "loop"
    /\ idx = nFiles
    /\ Exit(DirectoryExitCode(success_count, nFiles))
    /\ UNCHANGED <<messages, mainVars, ecoVars>>
    /\ UNCHANGED <<doc, inputKind, inputName, outputName, tree, parquet_files, calls, nFiles, initialOutputs, outputs, config, params, idx, table,
                   success_count, log>>

\* classify, lines 285-287: input_path is neither a file nor a directory
InputMissing ==
    /\ pc = "dispatch"
    /\ inputKind = "missing"
    /\ Exit(1)
    /\ messages' = Append(messages, InputMissingError)
    /\ UNCHANGED <<mainVars, ecoVars>>
    /\ UNCHANGED <<doc, inputKind, inputName, outputName, tree, parquet_files, calls, nFiles, initialOutputs, outputs, config, params, idx, table,
                   success_count, log>>

\* ------------------------------------------------------------------------
\* Directory mode over a directory tree: the enumeration and the paths of
\* the loop, with one usable config.
\* ------------------------------------------------------------------------
PathsDoc ==
    [shape |-> "wrapped",
     classifier |-> [fields |-> ClassifierFields, classes |-> <<"a", "b">>,
                     beta |-> <<1, 2, -1, 1>>, beta_bias |-> <<1, -2>>,
                     decodes |-> TRUE],
     threshold |-> ThrAbsent, save_empty |-> "absent"]

\* What pq.read_table may find at an enumerated path: a table of the right
\* or of the wrong feature count, or nothing readable.
PathsTables == {MakeTable(0, 1, 2), MakeTable(0, 1, 1), UnreadableTable}

InitPaths ==
    /\ doc = PathsDoc
    /\ inputKind = "dir"
    /\ inputName = InputDirName
    /\ outputName = OutputDirName
    /\ tree \in Trees
    /\ parquet_files = <<>>
    /\ calls = <<>>
    /\ nFiles = Cardinality(get_parquet_files(tree, <<InputDirName>>))
    /\ initialOutputs = [i \in 1..nFiles |-> FileNoParent]
    /\ outputs = initialOutputs
    /\ pc = "load_config"
    /\ exitCode = 0
    /\ config = ConfigError
    /\ params = ParamsError
    /\ idx = 0
    /\ table = UnreadableTable
    /\ success_count = 0
    /\ log = <<>>
    /\ messages = <<>>
    /\ MainIdle
    /\ EcoIdle

\* classify, lines 260-269: get_parquet_files(input_path), in some order
EnumerateDirectory ==
    /\ pc = "dispatch"
    /\ inputKind = "dir"
    /\ parquet_files' \in Orders(get_parquet_files(tree, <<inputName>>))
    /\ IF Len(parquet_files') = 0
       THEN Exit(1) /\ messages' = Append(messages, NoFilesError)
       ELSE pc' = "loop" /\ UNCHANGED <<exitCode, messages>>
    /\ success_count' = 0
    /\ UNCHANGED <<mainVars, ecoVars>>
    /\ UNCHANGED <<doc, inputKind, inputName, outputName, tree, calls, nFiles,
                   initialOutputs, outputs, config, params, idx, table, log>>

\* classify, lines 270-281: one iteration of the loop, with its paths
ProcessNextPath ==
    /\ pc = "loop"
    /\ idx < Len(parquet_files)
    /\ \E t \in PathsTables :
         LET file_path == parquet_files[idx + 1]
             output_file_path == DirectoryOutputPath(file_path, <<inputName>>, <<outputName>>)
             name == output_file_path[Len(output_file_path)]
             same == {j \in 1..idx : calls[j].output_path = output_file_path} \cup {idx + 1}
             res == process_single_file(t, outputs[CHOOSE j \in same : TRUE], name, params,
                                        config.classifier.classes,
                                        config.threshold, SaveEmpty(config))
         IN  /\ table' = t
             /\ outputs' = [k \in DOMAIN outputs |-> IF k \in same THEN res.out
                                                     ELSE outputs[k]]
             /\ log' = Append(log, LogEntry(t, name, res))
             /\ calls' = Append(calls, [input_path |-> file_path,
                                        output_path |-> output_file_path])
             /\ success_count' = IF res.success THEN success_count + 1 ELSE success_count
             /\ messages' = IF res.success THEN messages
                            ELSE Append(messages, ProcessingError)
             /\ ContinueLoop(res.success)
    /\ idx' = idx + 1
    /\ UNCHANGED <<mainVars, ecoVars>>
    /\ UNCHANGED <<doc, inputKind, inputName, outputName, tree, parquet_files, nFiles,
                   initialOutputs, config, params>>

NextPaths ==
    \/ LoadConfig
    \/ Deserialize
    \/ EnumerateDirectory
    \/ ProcessNextPath
    \/ FinishDirectory

SpecPaths == InitPaths /\ [][NextPaths]_vars

\* ------------------------------------------------------------------------
\* main: the command line and the call it leads to
\* ------------------------------------------------------------------------
\* classify is not part of the run.
ClassifyIdle ==
    /\ doc = BrokenDoc("missing")
    /\ inputKind = "missing"
    /\ inputName = InputDirName
    /\ outputName = OutputDirName
    /\ tree = {}
    /\ parquet_files = <<>>
    /\ calls = <<>>
    /\ nFiles = 0
    /\ initialOutputs = <<>>
    /\ outputs = <<>>
    /\ pc = "done"
    /\ exitCode = 0
    /\ config = ConfigError
    /\ params = ParamsError
    /\ idx = 0
    /\ table = UnreadableTable
    /\ success_count = 0
    /\ log = <<>>
    /\ messages = <<>>

\* An option of the classify subcommand: left out (argparse stores None) or
\* given with a value, which may be the empty string.
NoArg == [given |-> FALSE, value |-> ""]
Arg(v) == [given |-> TRUE, value |-> v]
ArgValues == {NoArg, Arg(""), Arg("data/x"), Arg("/mnt/output")}

\* Lines 324-328: default_paths
DefaultInput == "/mnt/input"
DefaultOutput == "/mnt/output"
\* Line 332: Path(default_paths['config']) / 'config.json'
DefaultConfig == "/mnt/config/config.json"

\* Python's truth value of args.<option>: None and '' are false.
Truthy(a) == a.given /\ a.value # ""

\* get_paths(args), lines 319-334
get_paths(a) ==
    [input_path |-> IF Truthy(a.input) THEN a.input.value ELSE DefaultInput,
     output_path |-> IF Truthy(a.output) THEN a.output.value ELSE DefaultOutput,
     config_path |-> IF Truthy(a.config) THEN a.config.value ELSE DefaultConfig]

InitMain ==
    /\ command \in {"classify", "version"}
    /\ args \in [input : ArgValues, output : ArgValues, config : ArgValues]
    /\ command = "version" => args = [input |-> NoArg, output |-> NoArg, config |-> NoArg]
    /\ main_pc = "start"
    /\ invoked = <<>>
    /\ ClassifyIdle
    /\ EcoIdle

\* main, lines 341-343: the classify command
MainClassify ==
    /\ main_pc = "start"
    /\ command = "classify"
    /\ LET paths == get_paths(args)
       IN  invoked' = Append(invoked, [fn |-> "classify",
                                       input_path |-> paths.input_path,
                                       output_path |-> paths.output_path,
                                       config_path |-> paths.config_path])
    /\ main_pc' = "done"
    /\ UNCHANGED <<command, args, classifyVars, ecoVars>>

\* main, lines 344-345: the version command
MainShowVersion ==
    /\ main_pc = "start"
    /\ command = "version"
    /\ invoked' = Append(invoked, [fn |-> "show_version", input_path |-> "",
                                   output_path |-> "", config_path |-> ""])
    /\ main_pc' = "done"
    /\ UNCHANGED <<command, args, classifyVars, ecoVars>>

NextMain ==
    \/ MainClassify
    \/ MainShowVersion

SpecMain == InitMain /\ [][NextMain]_vars

\* ------------------------------------------------------------------------
\* scripts/run_model_on_ecosounds.py: process_file for one file, and the same
\* call made again when the script is run again
\* ------------------------------------------------------------------------
\* The calls of process_file for the file: a run and its re-run.
Runs == 2

\* A results CSV: absent, as the container wrote it ("raw"), or with the
\* metadata post-processing of lines 137-144 applied ("processed").
ResultStates == {"absent", "raw", "processed"}

Event(what) == [pass |-> pass, rec |-> rec + 1, what |-> what]

\* Mutant of ResultsExist: the results of an earlier run are not looked for.
ResultsNeverExist(r) == FALSE

\* Line 111: results_path.exists()
ResultsExist(r) == r # "absent"

\* Mutant of NeedsDownload: the parquet is fetched for every recognizer.
AlwaysDownload(p) == TRUE

\* Line 70: get_parquet downloads unless destination_filename exists.
NeedsDownload(p) == p = "absent"

InitEco ==
    /\ recognizers \in 1..MaxRecognizers
    /\ results \in [1..recognizers -> {"absent", "processed"}]
    /\ parquet \in {"absent", "present"}
    /\ eco_pc = "loop"
    /\ rec = 0
    /\ pass = 1
    /\ events = <<>>
    /\ ClassifyIdle
    /\ MainIdle

\* process_file, lines 103-113: the next recognizer; skip it if its results
\* exist
CheckResults ==
    /\ eco_pc = "loop"
    /\ rec < recognizers
    /\ IF ResultsExist(results[rec + 1])
       THEN /\ events' = Append(events, Event("exists"))
            /\ rec' = rec + 1
            /\ UNCHANGED eco_pc
       ELSE /\ events' = Append(events, Event("missing"))
            /\ eco_pc' = "get_parquet"
            /\ UNCHANGED rec
    /\ UNCHANGED <<recognizers, results, parquet, pass, classifyVars, mainVars>>

\* process_file, lines 115-118, and get_parquet: download the embeddings
\* unless they are there; a failed download ends the call
GetParquet ==
    /\ eco_pc = "get_parquet"
    /\ IF NeedsDownload(parquet)
       THEN \/ /\ parquet' = "present"
               /\ events' = Append(events, Event("download_ok"))
               /\ eco_pc' = "run_container"
            \/ /\ parquet' \in {"absent", "partial"}
               /\ events' = Append(events, Event("download_failed"))
               /\ eco_pc' = "returned"
       ELSE /\ eco_pc' = "run_container"
            /\ UNCHANGED <<parquet, events>>
    /\ UNCHANGED <<recognizers, results, rec, pass, classifyVars, mainVars>>

\* process_file, lines 120-147: run the container, then add the metadata
\* columns to the results it wrote.  The container writes the results CSV,
\* writes none, or run_docker_container raises; pandas raises KeyError on a
\* CSV whose offset column was renamed before.
RunContainer ==
    /\ eco_pc = "run_container"
    /\ \E outcome \in {"written", "nothing", "raised"} :
         LET after == IF outcome = "written" THEN "raw" ELSE results[rec + 1]
         IN  IF outcome = "raised"
             THEN /\ events' = events \o <<Event("container"), Event("raised")>>
                  /\ eco_pc' = "raised"
                  /\ UNCHANGED <<results, rec>>
             ELSE IF after = "absent"
             THEN /\ events' = events \o <<Event("container"), Event("no_results")>>
                  /\ eco_pc' = "loop"
                  /\ rec' = rec + 1
                  /\ UNCHANGED results
             ELSE IF after = "processed"
             THEN /\ events' = events \o <<Event("container"), Event("postprocess"),
                                            Event("raised")>>
                  /\ eco_pc' = "raised"
                  /\ UNCHANGED <<results, rec>>
             ELSE /\ events' = events \o <<Event("container"), Event("postprocess")>>
                  /\ results' = [results EXCEPT ![rec + 1] = "processed"]
                  /\ eco_pc' = "loop"
                  /\ rec' = rec + 1
    /\ UNCHANGED <<recognizers, parquet, pass, classifyVars, mainVars>>

\* process_file, lines 149-154: the loop is over; delete the temporary
\* parquet (an OSError is logged and leaves it there)
Cleanup ==
    /\ eco_pc = "loop"
    /\ rec = recognizers
    /\ IF parquet # "absent"
       THEN /\ parquet' \in {"absent", parquet}
            /\ events' = events \o <<Event("delete"), Event("finished")>>
       ELSE /\ events' = Append(events, Event("finished"))
            /\ UNCHANGED parquet
    /\ eco_pc' = "returned"
    /\ UNCHANGED <<recognizers, results, rec, pass, classifyVars, mainVars>>

\* main, lines 226-228, run again: process_file is called for the file anew
Rerun ==
    /\ eco_pc \in {"returned", "raised"}
    /\ pass < Runs
    /\ pass' = pass + 1
    /\ rec' = 0
    /\ eco_pc' = "loop"
    /\ UNCHANGED <<recognizers, results, parquet, events, classifyVars, mainVars>>

NextEco ==
    \/ CheckResults
    \/ GetParquet
    \/ RunContainer
    \/ Cleanup
    \/ Rerun

SpecEco == InitEco /\ [][NextEco]_vars

Next ==
    \/ LoadConfig
    \/ Deserialize
    \/ ClassifyFile
    \/ ClassifyDirectory
    \/ ProcessNextFile
    \/ FinishDirectory
    \/ InputMissing

Spec == Init /\ [][Next]_vars

\* ------------------------------------------------------------------------
\* Properties.  The expected values are written from the config document and
\* the input table, not from the operators above.
\* ------------------------------------------------------------------------
Called == log # <<>>
LastCall == Len(log)
LastEntry == log[LastCall]
LastOutput == outputs[LastCall].rows
Written == Called /\ LastEntry.outcome = "written"

TheClasses == config.classifier.classes
NumClasses == Len(TheClasses)
NumRows == Len(table.rows)
NumFeatures == table.num_columns - NumMetadata

RECURSIVE WeightedSum(_, _, _)
\* sum over f in 1..n of features[r][f] * beta[f][c], beta read row-major
\* from the flat values of the document
WeightedSum(r, c, n) ==
    IF n = 0 THEN 0
    ELSE WeightedSum(r, c, n - 1)
         + table.rows[r].features[n] * config.classifier.beta[(n - 1) * NumClasses + c]

ExpectedScore(r, c) == WeightedSum(r, c, NumFeatures) + config.classifier.beta_bias[c]

\* The threshold of class c for the three forms a threshold can take.
ThresholdOf(c) ==
    IF config.threshold.kind = "list" THEN config.threshold.list[c]
    ELSE IF config.threshold.kind = "null" THEN Float32Min
    ELSE config.threshold.val

\* The output rows that stem from input row r and class c.
RowsFor(r, c) ==
    {k \in DOMAIN LastOutput :
        /\ LastOutput[k].offset = table.rows[r].offset
        /\ LastOutput[k].label = TheClasses[c]}

\* C1: in every table process_single_file scored and wrote, the pair (r, c)
\* has exactly one output row if scores[r][c] >= threshold[c] and none
\* otherwise, and every output row belongs to a passing pair.
C1_ThresholdIff ==
    Written =>
        /\ \A r \in 1..NumRows : \A c \in 1..NumClasses :
              Cardinality(RowsFor(r, c)) = IF ExpectedScore(r, c) >= ThresholdOf(c) THEN 1 ELSE 0
        /\ \A k \in DOMAIN LastOutput :
              \E r \in 1..NumRows : \E c \in 1..NumClasses :
                 k \in RowsFor(r, c) /\ ExpectedScore(r, c) >= ThresholdOf(c)

\* A written table with a pair that passes, a pair that passes with a score
\* equal to its threshold, and a pair that does not pass.
C1_Witness ==
    /\ Written
    /\ \E r \in 1..NumRows : \E c \in 1..NumClasses : ExpectedScore(r, c) > ThresholdOf(c)
    /\ \E r \in 1..NumRows : \E c \in 1..NumClasses : ExpectedScore(r, c) = ThresholdOf(c)
    /\ \E r \in 1..NumRows : \E c \in 1..NumClasses : ExpectedScore(r, c) < ThresholdOf(c)

\* C2: every output row is the row of a passing pair (r, c): it has the
\* source, channel and offset of input row r, the label classes[c] and the
\* score sum_f features[r][f] * beta[f][c] + beta_bias[c].  With beta =
\* [[1], [2]] and beta_bias = [0] the features [3, 4] score 11.
C2_RowContent ==
    Written =>
        /\ \A k \in DOMAIN LastOutput :
              \E r \in 1..NumRows : \E c \in 1..NumClasses :
                 /\ ExpectedScore(r, c) >= ThresholdOf(c)
                 /\ LastOutput[k] = [source |-> table.rows[r].source,
                                     channel |-> table.rows[r].channel,
                                     offset |-> table.rows[r].offset,
                                     label |-> TheClasses[c],
                                     score |-> ExpectedScore(r, c)]
        /\ (/\ TheClasses = <<"a">>
            /\ config.classifier.beta = <<1, 2>>
            /\ config.classifier.beta_bias = <<0>>)
           => \A r \in 1..NumRows :
                 table.rows[r].features = <<3, 4>>
                 => \A k \in RowsFor(r, 1) : LastOutput[k].score = 11

\* The example of the claim: features [3, 4] were scored 11 and written; and
\* a table of two classes and two rows was written with a non-zero bias.
C2_Witness ==
    /\ Written
    /\ TheClasses = <<"a">>
    /\ config.classifier.beta = <<1, 2>>
    /\ config.classifier.beta_bias = <<0>>
    /\ \E r \in 1..NumRows :
          /\ table.rows[r].features = <<3, 4>>
          /\ \E k \in RowsFor(r, 1) : LastOutput[k].score = 11
    /\ Len(LastOutput) >= 2

\* ---- preconditions of a call, stated on its inputs ----
FeatureCountMatches == table.readable /\ NumFeatures * NumClasses = Len(config.classifier.beta)
FeatureCountMismatch == table.readable /\ NumFeatures * NumClasses # Len(config.classifier.beta)
BiasMatches == Len(config.classifier.beta_bias) = NumClasses
ThresholdUsable ==
    \/ config.threshold.kind \in {"float", "null"}
    \/ config.threshold.kind = "list" /\ Len(config.threshold.list) = NumClasses
\* The call got as far as the scores and the mask.
Scored == Called /\ FeatureCountMatches /\ BiasMatches /\ ThresholdUsable
NothingPasses ==
    \A r \in 1..NumRows : \A c \in 1..NumClasses : ExpectedScore(r, c) < ThresholdOf(c)
Successes == {i \in 1..Len(log) : log[i].success}

\* C3: when no pair passes and save_empty is false, process_single_file
\* returns True and the output path is left as it was; single-file mode then
\* exits 0 and directory mode counts the file as successful.
C3_SkipIsSuccess ==
    (Scored /\ NothingPasses /\ doc.save_empty = "false") =>
        /\ LastEntry.success
        /\ outputs[LastCall] = initialOutputs[LastCall]
        /\ (inputKind = "file" /\ pc = "done") => exitCode = 0
        /\ inputKind = "dir" => (LastCall \in Successes /\ success_count = Cardinality(Successes))

\* A single file with rows none of which passes was skipped, and the run
\* ended with status 0 and no output file.
C3_Witness ==
    /\ Scored /\ NothingPasses /\ doc.save_empty = "false"
    /\ NumRows >= 1
    /\ inputKind = "file" /\ pc = "done" /\ exitCode = 0
    /\ outputs[1] = FileAbsent

\* C4: in directory mode, with the config loaded and at least one file
\* found, classify ends with status 0 however many files failed.
C4_DirectoryExitsZero ==
    (inputKind = "dir" /\ pc = "done" /\ config.ok /\ params.ok /\ nFiles >= 1)
        => exitCode = 0

\* A directory run of two or more files, all of which failed, ended with 0.
C4_Witness ==
    /\ inputKind = "dir" /\ pc = "done" /\ nFiles >= 2
    /\ Len(log) = nFiles /\ Successes = {}
    /\ exitCode = 0

\* ---- a file of the directory loop, by what was read ----
EntryValid(e) == e.readable /\ e.named /\ e.num_columns - NumMetadata = params.rows
EntryMismatched(e) == e.readable /\ e.num_columns - NumMetadata # params.rows

\* C5: the directory loop calls process_single_file once per enumerated
\* file, whatever failed before (the log holds one entry per file handled,
\* and all files are handled when classify ends).  With a usable config that
\* saves empty results and an empty output directory, a directory of one
\* mismatched and one valid file, in either order, ends with status 0, the
\* valid file's output written, none for the mismatched file, and 1 success.
C5_BatchResilience ==
    (inputKind = "dir" /\ params.ok) =>
        /\ Len(log) = idx /\ idx <= nFiles
        /\ (pc = "done" /\ nFiles >= 1) => (idx = nFiles /\ exitCode = 0)
        /\ \A i \in 1..2 : \A j \in 1..2 :
              (/\ pc = "done" /\ nFiles = 2 /\ i # j
               /\ EntryMismatched(log[i]) /\ EntryValid(log[j])
               /\ BiasMatches /\ ThresholdUsable /\ doc.save_empty # "false"
               /\ initialOutputs[i] = FileAbsent /\ initialOutputs[j] = FileAbsent)
              => /\ exitCode = 0
                 /\ outputs[j].state = "result"
                 /\ outputs[i] = FileAbsent
                 /\ success_count = 1

\* The mismatched file came first and the valid file after it was written.
C5_Witness ==
    /\ inputKind = "dir" /\ params.ok /\ pc = "done" /\ nFiles = 2
    /\ EntryMismatched(log[1]) /\ EntryValid(log[2])
    /\ outputs[1] = FileAbsent /\ outputs[2].state = "result"
    /\ success_count = 1 /\ exitCode = 0

C7_ThresholdLengthFatal ==
    (/\ pc = "done" /\ params.ok
     /\ config.threshold.kind = "list"
     /\ Len(config.threshold.list) # NumClasses)
        => exitCode # 0

\* C8: a config whose beta_bias length differs from len(classes) is fatal in
\* both modes: classify ends with a non-zero status and writes no output.
C8_BiasLengthFatal ==
    (pc = "done" /\ config.ok /\ ~BiasMatches)
        => /\ exitCode # 0
           /\ \A i \in DOMAIN outputs : outputs[i].state # "result"

\* C9 as claimed: with the threshold absent from the document nothing is
\* filtered, every (row, class) pair of a written table is in the output.
C9_AbsentMeansNoFilter ==
    (Written /\ doc.threshold.kind = "absent")
        => \A r \in 1..NumRows : \A c \in 1..NumClasses : RowsFor(r, c) # {}

\* C9 amended: with the threshold absent from the document load_config sets
\* the float 0.0, and a pair of a written table is in the output exactly if
\* its score is >= 0; nothing is filtered only when the document gives the
\* threshold as null.
C9_AbsentMeansZero ==
    /\ (config.ok /\ doc.threshold.kind = "absent") =>
          /\ config.threshold = ThrFloat(0)
          /\ Written =>
                \A r \in 1..NumRows : \A c \in 1..NumClasses :
                   Cardinality(RowsFor(r, c)) = IF ExpectedScore(r, c) >= 0 THEN 1 ELSE 0
    /\ (Written /\ doc.threshold.kind = "null") =>
          \A r \in 1..NumRows : \A c \in 1..NumClasses : Cardinality(RowsFor(r, c)) = 1

\* A wrapped document without threshold: a table was written from which a
\* pair of negative score is missing while another pair is present.
C9_Witness ==
    /\ Written /\ doc.shape = "wrapped" /\ doc.threshold.kind = "absent"
    /\ \E r \in 1..NumRows : \E c \in 1..NumClasses :
          ExpectedScore(r, c) < 0 /\ RowsFor(r, c) = {}
    /\ \E r \in 1..NumRows : \E c \in 1..NumClasses : RowsFor(r, c) # {}

\* C10: with a threshold that is one JSON number, integer or not, a call
\* that nothing else stops (readable table with the metadata columns,
\* matching feature count and bias, writable output) succeeds.
C10_ScalarThresholdSucceeds ==
    (/\ Called
     /\ config.threshold.kind \in {"int", "float"}
     /\ table.named
     /\ FeatureCountMatches /\ BiasMatches
     /\ initialOutputs[LastCall] # FileBlocked)
        => LastEntry.success

\* C11: in single-file mode an output path without extension is extended by
\* a default extension before the call: process_single_file is handed a path
\* that has an extension and is not the bare path the caller gave.
C11_DefaultExtensionAppended ==
    (inputKind = "file" /\ Called /\ Suffix(outputName) = "") =>
        /\ Suffix(LastEntry.output_name) # ""
        /\ LastEntry.output_name # outputName

\* C12: an existing input file whose extension is not .parquet ends
\* classify with status 1; process_single_file is never called, so no table
\* is read and the output path stays as it was.
C12_NonParquetInputFatal ==
    (inputKind = "file" /\ Suffix(inputName) # ".parquet") =>
        /\ ~Called
        /\ table = UnreadableTable
        /\ outputs = initialOutputs
        /\ pc = "done" => exitCode = 1

\* A usable config and the input file in.csv: classify got as far as the
\* extension test and ended there with status 1.
C12_Witness ==
    /\ inputKind = "file" /\ inputName = <<"in", ".csv">>
    /\ config.ok /\ params.ok
    /\ pc = "done" /\ exitCode = 1 /\ ~Called

\* C19: a call that writes leaves the output path's parent directory in
\* place, created if it was missing, and the file is CSV with a header
\* exactly if the path's extension is ".csv", parquet for any other
\* extension or none.
C19_OutputFormat ==
    Written =>
        /\ outputs[LastCall].state = "result"
        /\ outputs[LastCall].parent = "exists"
        /\ outputs[LastCall].format \in {"csv", "parquet"}
        /\ outputs[LastCall].format = "csv" <=> Suffix(LastEntry.output_name) = ".csv"

\* A parquet file written to result.CSV under a parent directory that did
\* not exist before the call.
C19_Witness ==
    /\ Written /\ inputKind = "file"
    /\ LastEntry.output_name = <<"result", ".CSV">>
    /\ initialOutputs[1] = FileNoParent
    /\ outputs[1].parent = "exists" /\ outputs[1].format = "parquet"

\* ---- directory mode over a tree ----
\* The enumeration has been made.
Enumerated == pc \in {"loop", "done"}
\* The .parquet files that lie under the input directory.
ParquetFilesOf(t) ==
    {e \in t : e.kind = "file" /\ MatchesPattern(e.path[Len(e.path)])}
\* The spec's example: in/a/b.parquet and in/c.parquet.
ExampleTree ==
    {Dir(<< <<"a">> >>), File(<< <<"a">>, <<"b", ".parquet">> >>),
     File(<< <<"c", ".parquet">> >>)}
OutputPathsCalled == {calls[i].output_path : i \in 1..Len(calls)}

C14_NoParquetFileFatal ==
    (pc = "done" /\ config.ok /\ params.ok /\ inputKind = "dir" /\ ParquetFilesOf(tree) = {})
        => /\ exitCode = 1
           /\ ~Called
           /\ outputs = initialOutputs

\* C20: get_parquet_files returns exactly the files under the directory
\* whose name ends in .parquet: each of them once, and nothing that is not
\* such a file.
C20_ExactlyParquetFiles ==
    Enumerated =>
        /\ {parquet_files[i] : i \in 1..Len(parquet_files)}
              = {<<inputName>> \o e.path : e \in ParquetFilesOf(tree)}
        /\ \A i, j \in 1..Len(parquet_files) : parquet_files[i] = parquet_files[j] => i = j

\* ---- load_config ----
\* The documents load_config must refuse.
UnusableDoc ==
    \/ doc.shape \in {"missing", "malformed"}
    \/ doc.shape = "bare" /\ "classes" \notin doc.classifier.fields
    \/ \E f \in ClassifierFields : f \notin doc.classifier.fields
ConfigLoaded == pc # "load_config"

\* C15: once load_config is over, either it returned a config whose
\* classifier has classes, beta and beta_bias and whose threshold key is
\* set, or the process has ended with status 1 and nothing was processed;
\* the latter for a missing file, malformed JSON, a document with neither
\* "classifier" nor "classes" and a classifier that lacks a required field.
C15_ConfigCompleteOrExit ==
    ConfigLoaded =>
        IF UnusableDoc
        THEN /\ ~config.ok
             /\ pc = "done" /\ exitCode = 1
             /\ ~Called /\ outputs = initialOutputs
        ELSE /\ config.ok
             /\ ClassifierFields \subseteq config.classifier.fields
             /\ config.classifier = doc.classifier
             /\ config.threshold.kind # "absent"

\* A wrapped document whose classifier lacks only beta_bias ended the run
\* with status 1.
C15_Witness ==
    /\ doc.shape = "wrapped" /\ doc.classifier.fields = {"classes", "beta"}
    /\ pc = "done" /\ exitCode = 1 /\ ~config.ok

\* The wrapped document that holds the bare document as its classifier,
\* with threshold 0.0 and save_empty true.
WrappedEquivalent(d) ==
    [shape |-> "wrapped", classifier |-> d.classifier,
     threshold |-> ThrFloat(0), save_empty |-> "true"]
\* What the last call gives on the same table with the config and the
\* parameters of the wrapped equivalent.
WrappedRun ==
    LET cfg == load_config(WrappedEquivalent(doc))
    IN  process_single_file(table, initialOutputs[LastCall], LastEntry.output_name,
                            deserialize_classifier_params(cfg.classifier),
                            cfg.classifier.classes, cfg.threshold, SaveEmpty(cfg))

\* C16: load_config turns a bare classifier document into classifier = the
\* document, threshold = 0.0, save_empty = true, which is the config of the
\* wrapped equivalent; the parameters are the same, and each
\* process_single_file call of the bare run returns and leaves at the
\* output path what the wrapped equivalent gives for the same table.
C16_BareEqualsWrapped ==
    (doc.shape = "bare" /\ ConfigLoaded /\ config.ok) =>
        /\ config = [ok |-> TRUE, classifier |-> doc.classifier,
                     threshold |-> ThrFloat(0), save_empty |-> "true"]
        /\ config = load_config(WrappedEquivalent(doc))
        /\ (Called /\ params.ok) =>
              /\ LastEntry.success = WrappedRun.success
              /\ LastEntry.outcome = WrappedRun.outcome
              /\ outputs[LastCall] = WrappedRun.out

\* A bare document gave an empty result table: nothing passed the
\* threshold 0.0 and save_empty true had the table written.
C16_Witness ==
    /\ doc.shape = "bare" /\ Written
    /\ NumRows >= 1 /\ NothingPasses
    /\ outputs[LastCall].state = "result" /\ outputs[LastCall].rows = <<>>

\* ---- deserialize_classifier_params ----
Deserialized == config.ok /\ pc \notin {"load_config", "deserialize"}
NumValues == Len(doc.classifier.beta)
Undecodable ==
    \/ ~doc.classifier.decodes
    \/ Len(doc.classifier.classes) = 0
    \/ NumValues % Len(doc.classifier.classes) # 0

\* C17: once deserialize_classifier_params is over, either it returned beta
\* with N / C rows and C columns, C the number of classes, holding each of
\* the N decoded values at its row-major place, or the process has ended
\* with status 1 and nothing was processed; the latter whenever a string
\* does not decode, C is 0 or N is not a multiple of C.
C17_ReshapeOrExit ==
    Deserialized =>
        IF Undecodable
        THEN /\ ~params.ok
             /\ pc = "done" /\ exitCode = 1
             /\ ~Called /\ outputs = initialOutputs
        ELSE LET C == Len(doc.classifier.classes)
             IN  /\ params.ok
                 /\ params.cols = C
                 /\ params.rows * C = NumValues
                 /\ Len(params.beta) = params.rows
                 /\ \A f \in 1..params.rows : Len(params.beta[f]) = C
                 /\ \A k \in 1..NumValues :
                       params.beta[((k - 1) \div C) + 1][((k - 1) % C) + 1]
                          = doc.classifier.beta[k]

\* Three values for two classes: the run ended in
\* deserialize_classifier_params with status 1.
C17_Witness ==
    /\ Deserialized
    /\ Len(doc.classifier.classes) = 2 /\ NumValues = 3
    /\ ~params.ok /\ pc = "done" /\ exitCode = 1

\* C21: the first three columns are metadata whatever their names: a call on
\* a readable table whose first three columns are not named source, channel
\* and offset and which has beta.rows further columns, with nothing else in
\* its way (matching bias, usable threshold, writable output), succeeds, and
\* what it writes holds the values of those three columns.
C21_MetadataByPosition ==
    (/\ Called /\ table.readable /\ ~table.named
     /\ FeatureCountMatches /\ BiasMatches /\ ThresholdUsable
     /\ initialOutputs[LastCall] # FileBlocked)
        => /\ LastEntry.success
           /\ LastEntry.outcome = "written" =>
                 \A k \in 1..Len(LastOutput) :
                    \E r \in 1..NumRows :
                       /\ LastOutput[k].source = table.rows[r].source
                       /\ LastOutput[k].channel = table.rows[r].channel
                       /\ LastOutput[k].offset = table.rows[r].offset

\* ---- messages ----
Failures == {i \in 1..Len(log) : ~log[i].success}
Naming == {i \in 1..Len(messages) : messages[i].names_file /\ messages[i].names_condition}
ProcessingErrors == {i \in 1..Len(messages) : messages[i] = ProcessingError}

\* C22: no failure without a message that names the offending file and the
\* failing condition: a run that ended with status 1 has printed such a
\* message, and so has every failed process_single_file call.
C22_FailuresNamed ==
    /\ (pc = "done" /\ exitCode = 1) => Naming # {}
    /\ Cardinality(Naming) >= Cardinality(Failures)

\* C24: process_single_file always returns: True exactly when it scored the
\* table and wrote or skipped the output, False, with its error message
\* printed, for every error in reading, validating, scoring or writing.  It
\* never ends the process: after a failed call the directory loop is still
\* running, and a single-file run has ended with the status classify gives.
C24_ErrorsBecomeFalse ==
    /\ \A i \in 1..Len(log) :
          /\ log[i].success <=> log[i].outcome \in {"written", "skipped"}
          /\ ~log[i].success <=>
                log[i].outcome \in {"read", "feature_count", "shape", "threshold_length",
                                    "threshold_type", "metadata_column", "write"}
    /\ Called =>
          /\ LastEntry.success => Scored
          /\ (~table.readable \/ FeatureCountMismatch \/ ~BiasMatches \/ ~ThresholdUsable)
                => ~LastEntry.success
    /\ Cardinality(ProcessingErrors) = Cardinality(Failures)
    /\ (inputKind = "dir" /\ Called /\ idx < nFiles) => pc = "loop"
    /\ (inputKind = "dir" /\ pc = "done" /\ Called) => (idx = nFiles /\ exitCode = 0)

\* A directory run whose first file could not be read went on to its
\* second file.
C24_Witness ==
    /\ inputKind = "dir" /\ Len(log) = 2
    /\ log[1].outcome = "read" /\ ~log[1].success
    /\ log[2].success
    /\ messages = <<ProcessingError>>

\* ---- the order of the output rows ----
RowIndex(k) == CHOOSE r \in 1..NumRows : table.rows[r].offset = LastOutput[k].offset
ClassIndex(k) == CHOOSE c \in 1..NumClasses : TheClasses[c] = LastOutput[k].label

\* C25: the rows of a written table are in row-major order: the input row
\* of an output row never precedes that of the output row before it, and
\* among the rows of one input row the classes are in config order.
C25_RowMajorOrder ==
    Written =>
        \A k \in 1..Len(LastOutput) : \A j \in 1..Len(LastOutput) :
           k < j =>
              \/ RowIndex(k) < RowIndex(j)
              \/ RowIndex(k) = RowIndex(j) /\ ClassIndex(k) < ClassIndex(j)

\* Two input rows and two classes, every pair in the output.
C25_Witness ==
    /\ Written /\ NumRows = 2 /\ NumClasses = 2
    /\ Len(LastOutput) = 4
    /\ RowIndex(2) = 1 /\ ClassIndex(2) = 2
    /\ RowIndex(3) = 2 /\ ClassIndex(3) = 1

\* C27: with a config that is missing, malformed, incomplete or not
\* decodable, classify never gets to the input path, whatever it is: it
\* reads no table, enumerates no directory, leaves every output as it was
\* and ends with status 1, its only message that of the config.
C27_ConfigBeforeInput ==
    (UnusableDoc \/ Undecodable) =>
        /\ pc \in {"load_config", "deserialize", "done"}
        /\ ~Called /\ table = UnreadableTable
        /\ outputs = initialOutputs
        /\ pc = "done" =>
              /\ exitCode = 1
              /\ messages \in {<<LoadConfigError(doc)>>, <<DeserializeError>>}

\* An input path that does not exist and a config that does not decode:
\* the run ended on the config.
C27_Witness ==
    /\ inputKind = "missing" /\ ~doc.classifier.decodes
    /\ config.ok /\ ~params.ok
    /\ pc = "done" /\ exitCode = 1
    /\ messages = <<DeserializeError>>

\* C28: a call that skipped the output or failed leaves the output location
\* as it was before the call: a missing parent directory is still missing,
\* a file that was there is still there.
C28_OutputUntouched ==
    \A i \in 1..Len(log) :
       log[i].outcome # "written" => outputs[i] = initialOutputs[i]

\* A directory run in which one call skipped the output and another failed,
\* the output paths holding an old file or lacking their parent directory.
C28_Witness ==
    /\ Len(log) = 2
    /\ log[1].outcome = "skipped" /\ log[2].outcome = "feature_count"
    /\ \A i \in 1..2 : initialOutputs[i] \in {FileOld, FileNoParent} /\ outputs[i] = initialOutputs[i]

\* C26: in directory mode two calls of the loop for different input paths
\* never have the same output path, so no result overwrites another.
C26_OutputPathsDistinct ==
    \A i \in 1..Len(calls) : \A j \in 1..Len(calls) :
       calls[i].input_path # calls[j].input_path
          => calls[i].output_path # calls[j].output_path

\* ---- main ----
\* The path main must pass for an option: its value when it was given, else
\* the default.
PathFor(a, default) == IF a.given THEN a.value ELSE default

\* C23: for the classify command main calls classify exactly once, each of
\* its three paths being the option's value when the option is on the
\* command line and its own default otherwise; for the version command it
\* calls show_version and not classify.
C23_MainWiring ==
    main_pc = "done" =>
        /\ Len(invoked) = 1
        /\ command = "classify" =>
              /\ invoked[1].fn = "classify"
              /\ invoked[1].input_path = PathFor(args.input, "/mnt/input")
              /\ invoked[1].output_path = PathFor(args.output, "/mnt/output")
              /\ invoked[1].config_path = PathFor(args.config, "/mnt/config/config.json")
        /\ command = "version" => invoked[1].fn = "show_version"

\* ---- process_file ----
Happened == 1..Len(events)
\* Event k belongs to the handling of recognizer r in call q.
At(k, q, r) == events[k].pass = q /\ events[k].rec = r
Is(k, whats) == events[k].what \in whats
SameIteration(j, k) == events[j].pass = events[k].pass /\ events[j].rec = events[k].rec
Work == {"download_ok", "download_failed", "container", "postprocess"}

\* For a (file, recognizer) pair whose results CSV exists when the loop
\* comes to it, nothing but the check happens: no download, no container
\* run, no post-processing.
ExistingResultsSkipped ==
    \A k \in Happened : Is(k, {"exists"}) =>
       \A j \in Happened : (j # k /\ SameIteration(j, k)) => FALSE

C30_DownloadOnceDeleteLast ==
    /\ \A j \in Happened : \A k \in Happened :
          (/\ Is(j, {"download_ok", "download_failed"})
           /\ Is(k, {"download_ok", "download_failed"})
           /\ events[j].pass = events[k].pass) => j = k
    /\ eco_pc = "run_container" => parquet # "absent"
    /\ \A k \in Happened : Is(k, {"delete"}) =>
          /\ events[k].rec = recognizers + 1
          /\ \A r \in 1..recognizers :
                \E j \in 1..(k - 1) : At(j, events[k].pass, r) /\ Is(j, {"exists", "missing"})
          /\ \A j \in Happened :
                (j > k /\ events[j].pass = events[k].pass) => Is(j, {"finished"})
    /\ \A k \in Happened : Is(k, {"download_failed"}) =>
          /\ \A j \in Happened : j > k => events[j].pass > events[k].pass
          /\ events[k].pass = pass => (eco_pc = "returned" /\ rec < recognizers)

\* One call for two recognizers without results: one download, two
\* container runs, then the parquet was deleted.
C30_Witness ==
    /\ recognizers = 2 /\ pass = 1 /\ eco_pc = "returned" /\ parquet = "absent"
    /\ Cardinality({k \in Happened : Is(k, {"download_ok"})}) = 1
    /\ Cardinality({k \in Happened : Is(k, {"container"})}) = 2
    /\ Is(Len(events) - 1, {"delete"})

====
